---- MODULE Spec2Model ----
(***************************************************************************)
(* Model of the attraction search engine of back-tripexplorer:             *)
(* AttractionsService.search (services/attractions_service.py) with its    *)
(* process-global result cache, the Google Places gateway                  *)
(* (external_services.py) and the MongoDB repository                       *)
(* (repositories/attraction_repository.py).                                *)
(*                                                                         *)
(* Conventions of the translation                                          *)
(*  - a Python str is a sequence of atoms (TLA+ strings); an atom is a     *)
(*    run of characters that the program never looks inside, so that       *)
(*    strip, split, replace, lower and `in` act on it as they do in Python *)
(*  - an optional value (None or x) is the sequence <<>> or <<x>>          *)
(*  - a value of the params dict is a record [kind, s, n]: a str, an int   *)
(*    or None                                                              *)
(*  - a Python dict that the program iterates is a sequence in insertion   *)
(*    order                                                                *)
(***************************************************************************)
EXTENDS Integers, Sequences, FiniteSets, TLC

VARIABLES
    search_cache,   \* _search_cache: entries [key, results, time] in insertion order
    clock,          \* what time.time() returns
    calls,          \* the number of search calls so far
    call,           \* the arguments and gateway outcomes of the latest search call
    ret,            \* what the latest search call did and returned
    passes,         \* the search calls under way in concurrent threads, by thread
    db              \* the Attraction and Compilation documents of the database

vars == <<search_cache, clock, calls, call, ret, passes, db>>

----------------------------------------------------------------------------
(* Python str operations on sequences of atoms *)

WS == " "

None == <<>>

\* the element of a one-element set; {e(x) : x \in {v}} computes v once
The(S) == CHOOSE x \in S : TRUE

Some(x) == <<x>>

\* a list built element by element, as the tuple of its elements: each
\* element is computed once, when the list is built
List(f) == f \o <<>>

RECURSIVE lstrip(_)
lstrip(s) == IF s # <<>> /\ Head(s) = WS THEN lstrip(Tail(s)) ELSE s

RECURSIVE rstrip(_)
rstrip(s) == IF s # <<>> /\ s[Len(s)] = WS THEN rstrip(SubSeq(s, 1, Len(s) - 1)) ELSE s

\* a text taken as it was given
strip_nothing(s) == s

strip(s) == rstrip(lstrip(s))

\* needle in hay
contains(hay, needle) ==
    \E i \in 1..(Len(hay) - Len(needle) + 1) : SubSeq(hay, i, i + Len(needle) - 1) = needle

lower_atom(a) ==
    CASE a = "Museum" -> "museum"
      [] a = "Park" -> "park"
      [] a = "ART" -> "art"
      [] OTHER -> a

lower(s) == [i \in 1..Len(s) |-> lower_atom(s[i])]

replace(s, old, new) == [i \in 1..Len(s) |-> IF s[i] = old THEN new ELSE s[i]]

\* s.split(sep): the pieces between the separators, empty pieces included
RECURSIVE split(_, _)
split(s, sep) ==
    IF \A i \in 1..Len(s) : s[i] # sep
    THEN <<s>>
    ELSE LET i == CHOOSE k \in 1..Len(s) : s[k] = sep /\ \A j \in 1..(k - 1) : s[j] # sep
         IN  <<SubSeq(s, 1, i - 1)>> \o split(SubSeq(s, i + 1, Len(s)), sep)

\* the decimal numerals the model's inputs use
numeral == ("0" :> 0) @@ ("1" :> 1) @@ ("2" :> 2) @@ ("3" :> 3) @@ ("4" :> 4)
           @@ ("5" :> 5) @@ ("50" :> 50) @@ ("200" :> 200) @@ ("2000" :> 2000)

\* int(s) and float(s) of a str: surrounding whitespace is ignored, anything
\* but a numeral raises ValueError (ok = FALSE)
parse_number(s) ==
    LET t == strip(s)
    IN  IF Len(t) = 1 /\ t[1] \in DOMAIN numeral
        THEN [ok |-> TRUE, n |-> numeral[t[1]]]
        ELSE [ok |-> FALSE, n |-> 0]

----------------------------------------------------------------------------
(* values of the params dict *)

NoneV == [kind |-> "none", s |-> <<>>, n |-> 0]

StrV(s) == [kind |-> "str", s |-> s, n |-> 0]

IntV(n) == [kind |-> "int", s |-> <<>>, n |-> n]

\* bool(v)
truthy(v) ==
    CASE v.kind = "none" -> FALSE
      [] v.kind = "str" -> v.s # <<>>
      [] v.kind = "int" -> v.n # 0

\* a or b
py_or(a, b) == IF truthy(a) THEN a ELSE b

\* params.get(k)
get(params, k) == IF k \in DOMAIN params THEN params[k] ELSE NoneV

\* params.get(k, default)
get_default(params, k, default) == IF k \in DOMAIN params THEN params[k] ELSE default

\* float(v) and int(v): TypeError on None, ValueError on a str that is no number
to_number(v) ==
    CASE v.kind = "int" -> [ok |-> TRUE, n |-> v.n]
      [] v.kind = "str" -> parse_number(v.s)
      [] OTHER -> [ok |-> FALSE, n |-> 0]

\* the keys a request can carry, in the order sort_keys=True puts them
ParamKeys == <<"category", "city", "country", "lat", "limit", "lng", "maxPrice",
               "minRating", "min_rating", "price_level", "profile", "q", "radius_m">>

\* json.dumps of one value: a str and a number are written differently
json_value(v) == <<v.kind, v.s, v.n>>

\* _generate_cache_key: md5 of json.dumps(params, sort_keys=True).  The digest
\* is modelled by the serialized text itself (no collisions), the text by the
\* sequence of its key/value pairs in sorted key order.
generate_cache_key(params) ==
    LET present == SelectSeq(ParamKeys, LAMBDA k : k \in DOMAIN params)
    IN  [i \in 1..Len(present) |-> <<present[i], json_value(params[present[i]])>>]

----------------------------------------------------------------------------
(* place records and PlaceMapper *)

\* a raw record of the provider; an absent key is None
Place(place_id, name, types, rating, user_ratings_total, price_level, address_components) ==
    [place_id |-> place_id, name |-> name, types |-> types, rating |-> rating,
     user_ratings_total |-> user_ratings_total, price_level |-> price_level,
     address_components |-> address_components]

\* an Attraction document of the local store (models/attraction.py:6-30)
Document(place_id, name, types, rating, user_ratings_total, price_level) ==
    [place_id |-> place_id, name |-> name, types |-> types, rating |-> rating,
     user_ratings_total |-> user_ratings_total, price_level |-> price_level]

\* place.get(k, 0) of an optional number
get_or_zero(opt) == IF opt = None THEN 0 ELSE opt[1]

\* the loop of lines 41-48: a component sets country only while country is
\* falsy, so a non-empty hint is never replaced; a component with an empty
\* long_name leaves the variable falsy and the next one is tried
RECURSIVE scan_components(_, _, _)
scan_components(comps, tags, current) ==
    IF comps = <<>> THEN current
    ELSE LET comp == Head(comps)
             tagged == \E i \in 1..Len(comp.types) : comp.types[i] \in tags
         IN  scan_components(Tail(comps), tags,
                             IF tagged /\ current = <<>> THEN comp.long_name ELSE current)

\* _map_place_to_attraction, the fields search reads (country_hint is a str,
\* '' standing for None as well: the code only tests its truth)
map_place_to_attraction(place, country_hint) ==
    [place_id |-> place.place_id,
     name |-> place.name,
     country |-> scan_components(place.address_components, {"country"}, country_hint),
     city |-> scan_components(place.address_components, {"locality", "postal_town"}, <<>>),
     category |-> IF place.types = <<>> THEN <<>> ELSE place.types[1],
     types |-> place.types,
     rating |-> get_or_zero(place.rating),
     user_ratings_total |-> get_or_zero(place.user_ratings_total),
     price_level |-> place.price_level,
     raw_data |-> place]

map_all(places, country_hint) ==
    [i \in 1..Len(places) |-> map_place_to_attraction(places[i], country_hint)]

----------------------------------------------------------------------------
(* the gateways: GooglePlacesService and AttractionRepository *)

\* what the googlemaps client or the MongoDB query does on one call: it
\* answers with records, or raises
Answer(results) == [kind |-> "ok", results |-> results]

Failure == [kind |-> "error", results |-> <<>>]

\* one request sent to the googlemaps client
ProviderCall(fn, query, location, radius, place_type) ==
    [fn |-> fn, query |-> query, location |-> location, radius |-> radius,
     place_type |-> place_type]

DEFAULT_RADIUS == 5000

\* the post-filter of a text search, external_services.py:55-64
type_matches(place_type, place) ==
    \E i \in 1..Len(place.types) :
        \/ lower(place_type) = lower(place.types[i])
        \/ contains(lower(place.types[i]), lower(place_type))

\* GooglePlacesService.search_places; query and place_type are optional
\* strs, location an optional pair, radius an optional int
search_places(client, query, location, radius, place_type) ==
    IF location # None
    THEN [results |-> IF client.kind = "ok" THEN client.results ELSE <<>>,
          calls |-> <<ProviderCall("places_nearby", query, location,
                                   Some(IF radius = None \/ radius = Some(0)
                                        THEN DEFAULT_RADIUS ELSE radius[1]),
                                   place_type)>>]
    ELSE LET enhanced ==
                 IF place_type # None /\ query # None /\ query # Some(<<>>)
                    /\ ~contains(lower(query[1]), lower(place_type[1]))
                 THEN Some(replace(place_type[1], "_", WS) \o <<WS>> \o query[1])
                 ELSE query
             found == IF client.kind = "ok" THEN client.results ELSE <<>>
         IN  [results |-> IF place_type # None
                          THEN SelectSeq(found, LAMBDA p : type_matches(place_type[1], p))
                          ELSE found,
              calls |-> <<ProviderCall("places", enhanced, None, None, None)>>]

Take(seq, n) == SubSeq(seq, 1, IF n < Len(seq) THEN (IF n < 0 THEN Len(seq) + n ELSE n) ELSE Len(seq))

\* GooglePlacesService.search_attractions_by_country; profile and country
\* are strs, city an optional str
search_attractions_by_country(client, country, limit, profile, city) ==
    LET location_str == IF city # <<>> THEN city \o <<",", WS>> \o country ELSE country
        query ==
            CASE profile = <<"tourist">> ->
                     <<"tourist", WS, "attractions", WS, "in", WS>> \o location_str
              [] profile = <<"local">> ->
                     <<"local", WS, "favorites", WS, "restaurants", WS, "cafes", WS, "in", WS>>
                     \o location_str
              [] profile = <<"pro">> ->
                     <<"business", WS, "hotels", WS, "airports", WS, "train", WS, "stations",
                       WS, "in", WS>> \o location_str
              [] OTHER -> <<"attractions", WS, "in", WS>> \o location_str
        place_type ==
            IF profile \in {<<"local">>, <<"pro">>} THEN None
            ELSE Some(<<"tourist", "_", "attraction">>)
    IN  [results |-> IF client.kind = "ok" THEN Take(client.results, limit) ELSE <<>>,
         calls |-> <<ProviderCall("places", Some(query), None, None, place_type)>>]

\* one query sent to the local store, AttractionRepository.search
RepositoryCall(text, location, radius_m, place_type, limit) ==
    [text |-> text, location |-> location, radius_m |-> radius_m,
     place_type |-> place_type, limit |-> limit]


----------------------------------------------------------------------------
(* sorting: list.sort(key=...) and sorted(..., key=...) are stable *)

\* a < b for two tuples of ints of the same length
lex_less(a, b) ==
    \E k \in 1..Len(a) : a[k] < b[k] /\ \A m \in 1..(k - 1) : a[m] = b[m]

\* item j of the list comes before item i in the sorted list: its key is
\* smaller, or equal while j already came first (the sort is stable)
sorts_before(keys, j, i) == lex_less(keys[j], keys[i]) \/ (keys[j] = keys[i] /\ j < i)

\* seq sorted ascending by keys[i], the key of seq[i]
stable_sort(seq, keys) ==
    The({List([p \in 1..Len(seq) |-> seq[CHOOSE i \in 1..Len(seq) : position[i] = p]]) :
            position \in
                {List([i \in 1..Len(seq) |->
                          1 + Cardinality({j \in 1..Len(seq) : sorts_before(ks, j, i)})]) :
                    ks \in {List(keys)}}})

----------------------------------------------------------------------------
(* the search cache: _search_cache and _CACHE_TTL, lines 12-14 *)

CACHE_TTL == 300

MAX_CACHE_ENTRIES == 50

Entry(key, results, time) == [key |-> key, results |-> results, time |-> time]

has_key(cache, key) == \E i \in 1..Len(cache) : cache[i].key = key

entry_of(cache, key) == cache[CHOOSE i \in 1..Len(cache) : cache[i].key = key]

\* a lookup that never finds its entry
cache_hit_never(cache, key, current_time) == FALSE

\* an entry that never expires
cache_hit_forever(cache, key, current_time) == has_key(cache, key)

\* lines 140-145: the entry is served while it is younger than the TTL
cache_hit(cache, key, current_time) ==
    /\ has_key(cache, key)
    /\ current_time - entry_of(cache, key).time < CACHE_TTL

\* a store that adds an entry whether or not the key has one
store_appending(cache, key, results, current_time) ==
    Append(cache, Entry(key, results, current_time))

\* _search_cache[cache_key] = (mapped, current_time): a key the dict holds
\* keeps its place, a new key goes last
store(cache, key, results, current_time) ==
    IF has_key(cache, key)
    THEN [i \in 1..Len(cache) |->
             IF cache[i].key = key THEN Entry(key, results, current_time) ELSE cache[i]]
    ELSE Append(cache, Entry(key, results, current_time))

\* lines 426-429: all but the last 50 of the entries sorted by time are deleted
evict(cache) ==
    IF Len(cache) > MAX_CACHE_ENTRIES
    THEN The({SelectSeq(cache, LAMBDA e : e.key \notin old_keys) :
                 old_keys \in
                     {{sorted_cache[i].key : i \in 1..(Len(cache) - MAX_CACHE_ENTRIES)} :
                         sorted_cache \in
                             {stable_sort(cache,
                                          [i \in 1..Len(cache) |-> <<cache[i].time>>])}}})
    ELSE cache


----------------------------------------------------------------------------
(* AttractionsService.search: reading the request, lines 147-209 *)

TOURIST == <<"tourist">>

LOCAL_PROFILE == <<"local">>

PRO == <<"pro">>

TOURIST_ATTRACTION == <<"tourist", "_", "attraction">>

\* the str of a params value when it is truthy, '' otherwise
str_or_empty(v) == IF v.kind = "str" THEN v.s ELSE <<>>

\* lines 155-161: a pair when both coordinates are given and are numbers
parse_location(params) ==
    LET lat == get(params, "lat")
        lng == get(params, "lng")
    IN  IF lat.kind # "none" /\ ~to_number(lat).ok THEN None
        ELSE IF lng.kind # "none" /\ ~to_number(lng).ok THEN None
        ELSE IF lat.kind # "none" /\ lng.kind # "none"
             THEN Some(<<to_number(lat).n, to_number(lng).n>>)
             ELSE None

\* lines 163-166: a radius that is no number is dropped
parse_radius(params) ==
    LET radius_m == get(params, "radius_m")
    IN  IF radius_m.kind # "none" /\ to_number(radius_m).ok
        THEN Some(to_number(radius_m).n) ELSE None

\* line 169
min_rating_of(params) == py_or(get(params, "min_rating"), get(params, "minRating"))

\* line 170
price_level_of(params) == py_or(get(params, "price_level"), get(params, "maxPrice"))

PRICE_LEVEL_MAX == 200

\* line 174
has_category(category) == truthy(category) /\ strip(category.s) # <<>>

\* lines 175-183
has_min_rating(min_rating) ==
    /\ truthy(min_rating)
    /\ \/ min_rating.kind = "int" /\ min_rating.n > 0
       \/ /\ min_rating.kind = "str"
          /\ strip(min_rating.s) # <<>>
          /\ parse_number(min_rating.s).ok
          /\ parse_number(min_rating.s).n > 0

\* lines 185-193
has_price_level(price_level) ==
    /\ truthy(price_level)
    /\ \/ price_level.kind = "int" /\ price_level.n < PRICE_LEVEL_MAX
       \/ /\ price_level.kind = "str"
          /\ strip(price_level.s) # <<>>
          /\ parse_number(price_level.s).ok
          /\ parse_number(price_level.s).n < PRICE_LEVEL_MAX

\* a request is never taken to carry filters
requested_filters_never(params) == FALSE

\* line 195
requested_filters(params) ==
    \/ has_category(get(params, "category"))
    \/ has_min_rating(min_rating_of(params))
    \/ has_price_level(price_level_of(params))

\* lines 197-200
requested_types_of(category) ==
    IF has_category(category)
    THEN LET pieces == split(category.s, ",")
             stripped == [i \in 1..Len(pieces) |-> strip(pieces[i])]
         IN  SelectSeq(stripped, LAMBDA c : c # <<>>)
    ELSE <<>>

\* lines 198-209: the first requested type, else the profile's default when
\* no filter was requested
place_type_of(params) ==
    LET requested_types == requested_types_of(get(params, "category"))
        profile == get_default(params, "profile", StrV(TOURIST))
    IN  IF requested_types # <<>> THEN Some(requested_types[1])
        ELSE IF ~requested_filters(params) /\ profile = StrV(TOURIST)
             THEN Some(TOURIST_ATTRACTION)
             ELSE None

\* the query parameters as lines 147-170 and 359-375 read them
normalized(params) ==
    [text |-> strip(str_or_empty(get(params, "q"))),
     country |-> str_or_empty(get(params, "country")),
     city |-> str_or_empty(get(params, "city")),
     category_list |-> requested_types_of(get(params, "category")),
     min_rating |-> IF truthy(min_rating_of(params)) /\ to_number(min_rating_of(params)).ok
                    THEN Some(to_number(min_rating_of(params)).n) ELSE None,
     max_price_level |->
         IF truthy(price_level_of(params)) /\ to_number(price_level_of(params)).ok
         THEN Some(to_number(price_level_of(params)).n) ELSE None,
     location |-> parse_location(params),
     radius_m |-> parse_radius(params),
     profile |-> get_default(params, "profile", StrV(TOURIST)),
     limit |-> get(params, "limit")]

----------------------------------------------------------------------------
(* filters and ranking, lines 335-422 *)

\* a match that looks for the requested token inside the tag only
category_matches_one_way(requested_types, place) ==
    \E r \in 1..Len(requested_types) : \E t \in 1..Len(place.types) :
        contains(lower(place.types[t]), lower(requested_types[r]))

\* lines 340-346
category_matches(requested_types, place) ==
    \E r \in 1..Len(requested_types) : \E t \in 1..Len(place.types) :
        LET req_lower == lower(requested_types[r])
            pt_str == lower(place.types[t])
        IN  req_lower = pt_str \/ contains(pt_str, req_lower) \/ contains(req_lower, pt_str)

\* lines 335-356
category_filter(mapped, requested_types) ==
    IF requested_types # <<>>
    THEN SelectSeq(mapped, LAMBDA place : category_matches(requested_types, place))
    ELSE mapped

\* lines 359-368: min_rating_value, None when nothing usable was given
min_rating_value(min_rating) ==
    IF truthy(min_rating) /\ to_number(min_rating).ok
    THEN Some(to_number(min_rating).n) ELSE None

rating_filter(mapped, min_rating) ==
    LET value == min_rating_value(min_rating)
    IN  IF value # None /\ value[1] > 0
        THEN SelectSeq(mapped, LAMBDA p : p.rating >= value[1])
        ELSE mapped

\* lines 371-382
price_level_value(price_level) ==
    IF truthy(price_level) /\ to_number(price_level).ok
    THEN Some(to_number(price_level).n) ELSE None

price_filter(mapped, price_level) ==
    LET value == price_level_value(price_level)
    IN  IF value # None /\ value[1] < PRICE_LEVEL_MAX
        THEN SelectSeq(mapped, LAMBDA p :
                 \/ p.price_level # None /\ p.price_level[1] <= value[1]
                 \/ p.price_level = None)
        ELSE mapped

\* lines 385-389: 0 is falsy, so a ceiling of 0 does not count
effective_filters(requested_types, min_rating, price_level) ==
    LET rating_value == min_rating_value(min_rating)
        price_value == price_level_value(price_level)
    IN  \/ requested_types # <<>>
        \/ rating_value # None /\ rating_value[1] # 0 /\ rating_value[1] > 0
        \/ price_value # None /\ price_value[1] # 0 /\ price_value[1] < PRICE_LEVEL_MAX

tourist_types ==
    {<<"tourist", "_", "attraction">>, <<"point", "_", "of", "_", "interest">>, <<"museum">>,
     <<"art", "_", "gallery">>, <<"church">>, <<"park">>, <<"zoo">>,
     <<"amusement", "_", "park">>}

local_types ==
    {<<"restaurant">>, <<"cafe">>, <<"bar">>, <<"park">>, <<"gym">>, <<"store">>,
     <<"shopping", "_", "mall">>, <<"supermarket">>, <<"library">>,
     <<"movie", "_", "theater">>}

pro_types ==
    {<<"lodging">>, <<"establishment">>, <<"point", "_", "of", "_", "interest">>,
     <<"train", "_", "station">>, <<"airport">>, <<"gas", "_", "station">>, <<"bank">>,
     <<"atm">>}

\* sum(1 for t in types if any(tt in t.lower() for tt in vocabulary))
type_affinity(place, vocabulary) ==
    Cardinality({i \in 1..Len(place.types) :
                    \E tt \in vocabulary : contains(lower(place.types[i]), tt)})

popularity_key(place) == <<0 - place.rating, 0 - place.user_ratings_total>>

profile_key(place, vocabulary) ==
    <<0 - type_affinity(place, vocabulary), 0 - place.rating, 0 - place.user_ratings_total>>

\* the three sorts of lines 402-422 and of popular_by_country, lines 95-115:
\* a profile that is none of the three leaves the list as it is
profile_sort(mapped, profile) ==
    CASE profile = TOURIST ->
             stable_sort(mapped, [i \in 1..Len(mapped) |-> profile_key(mapped[i], tourist_types)])
      [] profile = LOCAL_PROFILE ->
             stable_sort(mapped, [i \in 1..Len(mapped) |-> profile_key(mapped[i], local_types)])
      [] profile = PRO ->
             stable_sort(mapped, [i \in 1..Len(mapped) |-> profile_key(mapped[i], pro_types)])
      [] OTHER -> mapped

\* a ranking that uses the profile's key whatever the filters
rank_by_profile_only(mapped, profile, has_filters) == profile_sort(mapped, profile)

\* lines 394-422
rank(mapped, profile, has_filters) ==
    IF has_filters
    THEN stable_sort(mapped, [i \in 1..Len(mapped) |-> popularity_key(mapped[i])])
    ELSE profile_sort(mapped, profile)


----------------------------------------------------------------------------
(* popular_by_country and the merge of the two sources *)

\* popular_by_country, lines 83-117; country and profile are strs, city a
\* str ('' for None)
popular_by_country(client, country, limit, profile, city) ==
    LET fetched == search_attractions_by_country(client, country, limit * 2, profile, city)
        mapped == map_all(fetched.results, country)
    IN  [results |-> Take(profile_sort(mapped, profile), limit),
         calls |-> fetched.calls]

REPOSITORY_LIMIT == 50

DEFAULT_LIMIT == 50

LOCAL_MERGE_LIMIT == 10

\* the query of the local store outside any try block
repository_results_unguarded(repo) ==
    [raised |-> repo.kind # "ok",
     results |-> IF repo.kind = "ok" THEN Take(repo.results, REPOSITORY_LIMIT) ELSE <<>>]

\* lines 259-271: the query of the local store; an exception is logged and
\* the store contributes nothing
repository_results(repo) ==
    [raised |-> FALSE,
     results |-> IF repo.kind = "ok" THEN Take(repo.results, REPOSITORY_LIMIT) ELSE <<>>]

\* line 273 with external_services.py:28-75: an exception of the client is
\* logged inside the gateway, which answers []
provider_results(client, query, location, radius, place_type) ==
    LET answer == search_places(client, query, location, radius, place_type)
    IN  [raised |-> FALSE, results |-> answer.results, calls |-> answer.calls]

\* lines 281-299: the provider-shaped dict of a local document
db_dict(doc) ==
    Place(doc.place_id, doc.name, doc.types, Some(doc.rating),
          Some(doc.user_ratings_total), doc.price_level, <<>>)

\* line 275
place_ids_of(google_results) ==
    {google_results[i].place_id : i \in
        {j \in 1..Len(google_results) :
            google_results[j].place_id # None /\ google_results[j].place_id # Some("")}}

\* a merge that appends the local documents whatever their place_id
merge_without_dedup(google_results, db_results) ==
    google_results \o [i \in 1..Len(Take(db_results, LOCAL_MERGE_LIMIT)) |->
                          db_dict(db_results[i])]

\* a merge that puts the local documents first
merge_local_first(google_results, db_results) ==
    [i \in 1..Len(SelectSeq(Take(db_results, LOCAL_MERGE_LIMIT),
                            LAMBDA doc : doc.place_id \notin place_ids_of(google_results))) |->
        db_dict(SelectSeq(Take(db_results, LOCAL_MERGE_LIMIT),
                          LAMBDA doc : doc.place_id \notin place_ids_of(google_results))[i])]
    \o google_results

\* a merge that drops the documents the provider has first and then appends
\* the first ten of those left
merge_first_ten_survivors(google_results, db_results) ==
    LET google_place_ids == place_ids_of(google_results)
        kept == SelectSeq(db_results, LAMBDA doc : doc.place_id \notin google_place_ids)
    IN  google_results \o [i \in 1..Len(Take(kept, LOCAL_MERGE_LIMIT)) |-> db_dict(kept[i])]

\* lines 275-302: results is the provider's list, to which the first ten
\* local documents are appended unless the provider has their place_id
merge(google_results, db_results) ==
    LET google_place_ids == place_ids_of(google_results)
        considered == Take(db_results, LOCAL_MERGE_LIMIT)
        kept == SelectSeq(considered, LAMBDA doc : doc.place_id \notin google_place_ids)
    IN  google_results \o [i \in 1..Len(kept) |-> db_dict(kept[i])]


----------------------------------------------------------------------------
(* AttractionsService.search, lines 125-431 *)

\* what one call of search did: the branch it took, the requests it sent,
\* the lists between its stages, what it returned and the cache it left
Outcome(branch, raised, results, cache, provider_calls, repository_calls, google_results, db_results, merged, mapped, filtered, has_filters) ==
    [hit |-> branch = "hit", raised |-> raised, branch |-> branch, results |-> results,
     cache |-> cache, cache_time |-> None, provider_calls |-> provider_calls,
     repository_calls |-> repository_calls, google_results |-> google_results,
     db_results |-> db_results, merged |-> merged, mapped |-> mapped,
     filtered |-> filtered, has_filters |-> has_filters]

\* a return that runs no filter and no ranking of search itself
EarlyReturn(branch, results, cache, provider_calls) ==
    Outcome(branch, FALSE, results, cache, provider_calls, <<>>, <<>>, <<>>, <<>>, <<>>, <<>>,
            FALSE)

\* an exception that leaves search
Raised(branch, cache, provider_calls, repository_calls) ==
    Outcome(branch, TRUE, <<>>, cache, provider_calls, repository_calls, <<>>, <<>>, <<>>,
            <<>>, <<>>, FALSE)

\* a type query that is empty when neither city nor country is given
type_query_without_type(type_name, city, country) ==
    IF city # <<>>
    THEN IF country # <<>>
         THEN type_name \o <<WS, "in", WS>> \o city \o <<",", WS>> \o country
         ELSE type_name \o <<WS, "in", WS>> \o city
    ELSE IF country # <<>>
         THEN type_name \o <<WS, "in", WS>> \o country
         ELSE <<>>

\* lines 215-221 and 311-317
type_query(type_name, city, country) ==
    IF city # <<>>
    THEN IF country # <<>>
         THEN type_name \o <<WS, "in", WS>> \o city \o <<",", WS>> \o country
         ELSE type_name \o <<WS, "in", WS>> \o city
    ELSE IF country # <<>>
         THEN type_name \o <<WS, "in", WS>> \o country
         ELSE type_name

\* lines 319-330
free_text_query(query, profile, has_filters, city, country) ==
    LET flavoured ==
            IF has_filters \/ query = <<>> THEN query
            ELSE CASE profile = TOURIST -> query \o <<WS, "tourist", WS, "attractions">>
                   [] profile = LOCAL_PROFILE -> query \o <<WS, "local", WS, "spots">>
                   [] profile = PRO -> query \o <<WS, "business">>
                   [] OTHER -> query
    IN  IF city # <<>>
        THEN IF flavoured # <<>> THEN flavoured \o <<WS, "in", WS>> \o city ELSE city
        ELSE IF country # <<>>
             THEN IF flavoured # <<>> THEN flavoured \o <<WS, "in", WS>> \o country ELSE country
             ELSE flavoured

\* lines 251-258
nearby_keyword(query, profile, has_filters) ==
    IF query = <<>> THEN None
    ELSE IF has_filters THEN Some(query)
    ELSE CASE profile = LOCAL_PROFILE -> Some(query \o <<WS, "local", WS, "favorites">>)
           [] profile = PRO -> Some(query \o <<WS, "business">>)
           [] OTHER -> Some(query)

\* lines 335-422: the filters and the ranking
pipeline(params, mapped) ==
    LET requested_types == requested_types_of(get(params, "category"))
        min_rating == min_rating_of(params)
        price_level == price_level_of(params)
        profile == get_default(params, "profile", StrV(TOURIST))
        has_filters == effective_filters(requested_types, min_rating, price_level)
    IN  The({[filtered |-> filtered, has_filters |-> has_filters,
              results |-> rank(filtered, str_or_empty(profile), has_filters)] :
                filtered \in
                    {price_filter(rating_filter(category_filter(mapped, requested_types),
                                                min_rating), price_level)}})

\* the branches of search that end in the filters, the ranking and the store
\* of lines 333-431
PipelineBranches == {"country_category", "coordinates", "text"}

\* lines 424-429
store_and_evict(cache, key, results, current_time) ==
    The({evict(stored) : stored \in {store(cache, key, results, current_time)}})

\* a hit that renews the entry's time
cached_return_refreshing(cache, key, current_time) ==
    EarlyReturn("hit", entry_of(cache, key).results,
                store(cache, key, entry_of(cache, key).results, current_time), <<>>)

\* lines 141-145: the stored list is returned as it is
cached_return(cache, key, current_time) ==
    EarlyReturn("hit", entry_of(cache, key).results, cache, <<>>)

\* the stores of lines 231, 237, 244 and 306, which return at once
store_and_return(cache, key, results, current_time) ==
    store(cache, key, results, current_time)

\* lines 138-431 for the cache key of line 137
search_keyed(params, cache, current_time, client, repo, cache_key) ==
    LET profile == str_or_empty(get_default(params, "profile", StrV(TOURIST)))
        query == strip(str_or_empty(get(params, "q")))
        country == str_or_empty(get(params, "country"))
        city == str_or_empty(get(params, "city"))
        location == parse_location(params)
        radius == parse_radius(params)
        has_filters == requested_filters(params)
        requested_types == requested_types_of(get(params, "category"))
        place_type == place_type_of(params)
        limit == to_number(get_default(params, "limit", IntV(DEFAULT_LIMIT)))
        \* lines 333-431 for the raw records of a branch
        Finish(branch, results, provider_calls, repository_calls, google_results, db_results) ==
            The({Outcome(branch, FALSE, piped.results,
                         store_and_evict(cache, cache_key, piped.results, current_time),
                         provider_calls, repository_calls, google_results, db_results,
                         results, map_all(results, country), piped.filtered,
                         piped.has_filters) :
                    piped \in {pipeline(params, map_all(results, country))}})
        \* lines 229-232, 235-238 and 305-307
        Popular(branch, where, town) ==
            IF ~limit.ok THEN Raised(branch, cache, <<>>, <<>>)
            ELSE The({EarlyReturn(branch, popular.results,
                                  store_and_return(cache, cache_key, popular.results,
                                                   current_time),
                                  popular.calls) :
                         popular \in
                             {popular_by_country(client, where, limit.n, profile, town)}})
    IN  IF cache_hit(cache, cache_key, current_time)
        THEN cached_return(cache, cache_key, current_time)
        ELSE IF query = <<>> /\ location = None
        THEN IF country # <<>>
             THEN IF has_filters
                  THEN IF requested_types # <<>> /\ place_type # None
                       THEN LET text_query ==
                                    type_query(replace(requested_types[1], "_", WS), city,
                                               country)
                                found == search_places(client, Some(text_query), None, None,
                                                       place_type)
                            IN  Finish("country_category", found.results, found.calls, <<>>,
                                       found.results, <<>>)
                       ELSE Popular("country_filters", country, city)
                  ELSE Popular("country", country, city)
             ELSE EarlyReturn("empty", <<>>,
                              store_and_return(cache, cache_key, <<>>, current_time), <<>>)
        ELSE IF location # None
        THEN LET search_query == nearby_keyword(query, profile, has_filters)
                 repository_call ==
                     RepositoryCall(IF search_query = None THEN <<>> ELSE search_query[1],
                                    location,
                                    IF radius = None \/ radius = Some(0)
                                    THEN DEFAULT_RADIUS ELSE radius[1],
                                    place_type, REPOSITORY_LIMIT)
                 local == repository_results(repo)
                 google == provider_results(client, search_query, location, radius,
                                            place_type)
             IN  IF local.raised
                 THEN Raised("coordinates", cache, <<>>, <<repository_call>>)
                 ELSE IF google.raised
                 THEN Raised("coordinates", cache, google.calls, <<repository_call>>)
                 ELSE Finish("coordinates", merge(google.results, local.results),
                             google.calls, <<repository_call>>, google.results,
                             local.results)
        ELSE IF city = <<>> /\ country = <<>> /\ ~contains(query, <<WS>>) /\ ~has_filters
        THEN Popular("bare_country", query, <<>>)
        ELSE LET text_query ==
                     IF has_filters /\ place_type # None
                     THEN type_query(replace(requested_types[1], "_", WS), city, country)
                     ELSE free_text_query(query, profile, has_filters, city, country)
                 found == search_places(client, Some(text_query), None, None, place_type)
             IN  Finish("text", found.results, found.calls, <<>>, found.results, <<>>)

\* cache_time is the time line 141 reads, None when line 140 finds no entry
search(params, cache, current_time, client, repo) ==
    The({[search_keyed(params, cache, current_time, client, repo, cache_key)
              EXCEPT !.cache_time = IF has_key(cache, cache_key)
                                    THEN Some(entry_of(cache, cache_key).time) ELSE None] :
            cache_key \in {generate_cache_key(params)}})


----------------------------------------------------------------------------
(* the inputs: requests, provider answers, local-store answers, clock *)

\* the most records an answer of the provider holds
MaxProviderResults == 2

\* the most documents an answer of the local store holds beyond its padding
MaxLocalResults == 2

\* the most search calls of one behaviour of Spec
MaxCalls == 2

NoParams == [k \in {} |-> NoneV]

Param(k, v) == k :> v

\* every way of taking at most one alternative for each key
RECURSIVE Combine(_)
Combine(options) ==
    IF options = <<>> THEN {NoParams}
    ELSE {first @@ rest : first \in Head(options) \cup {NoParams},
                          rest \in Combine(Tail(options))}

Museum == <<"museum">>

Restaurant == <<"restaurant">>

\* records of the provider: GA and GD rank alike under every key, GC is rated
\* below the thresholds the requests use, GN carries neither id nor rating
GA == Place(Some("a"), "provider a", <<Museum>>, Some(5), Some(10), Some(1),
            <<[types |-> <<"locality", "political">>, long_name |-> <<"Rome">>],
              [types |-> <<"country", "political">>, long_name |-> <<"Italy">>]>>)

GB == Place(Some("b"), "provider b", <<Restaurant, <<"point", "_", "of", "_", "interest">>>>,
            Some(4), Some(30), None, <<>>)

GC == Place(Some("c"), "provider c", <<<<"Park">>, TOURIST_ATTRACTION>>, Some(3), Some(20),
            Some(3), <<>>)

GD == Place(Some("d"), "provider d", <<Museum>>, Some(5), Some(10), Some(1), <<>>)

GN == Place(None, "provider n", <<>>, None, None, None, <<>>)

ProviderPool == {GA, GB, GC, GD, GN}

\* documents of the local store; place_id is required and unique there
LA == Document(Some("a"), "local a", <<Museum>>, 2, 5, None)

LE == Document(Some("e"), "local e", <<Restaurant>>, 4, 30, Some(2))

LocalPool == {LA, LE}

\* ten further documents, none of them known to the provider
PaddingIds == <<"p1", "p2", "p3", "p4", "p5", "p6", "p7", "p8", "p9", "p10">>

Padding ==
    [i \in 1..LOCAL_MERGE_LIMIT |->
        Document(Some(PaddingIds[i]), "local pad", <<Museum>>, 5, 1, None)]

SeqsUpTo(S, n) == UNION {[1..k -> S] : k \in 0..n}

IsInjective(seq) == \A i, j \in 1..Len(seq) : seq[i] = seq[j] => i = j

\* the client answers with any list, repetitions included, or raises
ProviderOutcomes ==
    {Failure} \cup {Answer(r) : r \in SeqsUpTo(ProviderPool, MaxProviderResults)}

\* the store answers with distinct documents, after the padding or not, or
\* with a document the provider may have ahead of the padding, or raises
RepositoryOutcomes ==
    {Failure} \cup
    {Answer(pad \o r) : pad \in {<<>>, Padding},
                        r \in {x \in SeqsUpTo(LocalPool, MaxLocalResults) : IsInjective(x)}}
    \cup {Answer(<<LA>> \o Padding)}

\* the instants at which the clock is read
Instants == {0, CACHE_TTL - 1, CACHE_TTL, CACHE_TTL + 1}

----------------------------------------------------------------------------
(* the state machine *)

NotCalled == [kind |-> "none", results |-> <<>>]

NoCall == [params |-> NoParams, time |-> 0, client |-> NotCalled, repo |-> NotCalled]

NoDocuments == [attractions |-> <<>>, compilations |-> <<>>]

NoReturn ==
    [f \in DOMAIN EarlyReturn("none", <<>>, <<>>, <<>>) \ {"cache"} |->
        EarlyReturn("none", <<>>, <<>>, <<>>)[f]]

\* one call of AttractionsService.search; an outcome of a gateway that was
\* not asked is not part of the call
Search(params, client, repo) ==
    \E outcome \in {search(params, search_cache, clock, client, repo)} :
        /\ search_cache' = outcome.cache
        /\ call' = [params |-> params, time |-> clock,
                    client |-> IF outcome.provider_calls # <<>> THEN client ELSE NotCalled,
                    repo |-> IF outcome.repository_calls # <<>> THEN repo ELSE NotCalled]
        /\ ret' = [f \in DOMAIN outcome \ {"cache"} |-> outcome[f]]
        /\ calls' = calls + 1
        /\ UNCHANGED <<clock, passes, db>>

\* the local store is asked only by a call that carries coordinates
AnswersFor(params, outcomes) ==
    IF parse_location(params) = None THEN {NotCalled} ELSE outcomes

\* time passes between two calls
Tick ==
    /\ \E t \in Instants : t > clock /\ clock' = t
    /\ UNCHANGED <<search_cache, calls, call, ret, passes, db>>


----------------------------------------------------------------------------
(* Spec: a few calls on the shared cache, with time passing between them *)

BigMuseum == <<"big", WS, "museum">>

\* a request of every branch that stores, and two requests that differ only
\* in the spelling of a key and of its number
CacheRequests ==
    {Param("q", StrV(BigMuseum)) @@ Param("min_rating", StrV(<<"4">>)),
     Param("q", StrV(BigMuseum)) @@ Param("minRating", IntV(4)),
     Param("country", StrV(<<"France">>)),
     Param("q", StrV(<<"Japan">>)),
     NoParams,
     Param("lat", StrV(<<"1">>)) @@ Param("lng", StrV(<<"2">>))}

\* the cache after fifty requests {limit: i} at time 0: each of them has
\* nothing to search for and stores the empty list (lines 240-245)
WarmCache ==
    [i \in 1..MAX_CACHE_ENTRIES |->
        Entry(generate_cache_key(Param("limit", IntV(i))), <<>>, 0)]

Init ==
    /\ search_cache \in {<<>>, WarmCache}
    /\ clock = 0
    /\ calls = 0
    /\ call = NoCall
    /\ ret = NoReturn
    /\ passes = <<>>
    /\ db = NoDocuments

SearchRequest ==
    /\ calls < MaxCalls
    /\ \E params \in CacheRequests, client \in {Failure, Answer(<<GC, GA>>)} :
           \E repo \in AnswersFor(params, {Failure, Answer(<<LA, LE>>)}) :
               Search(params, client, repo)

Next == SearchRequest \/ Tick

Spec == Init /\ [][Next]_vars


----------------------------------------------------------------------------
(* SpecTies: calls on a cache over its capacity whose oldest entry belongs  *)
(* to a full-pipeline request, at the instant the fifty others were stored  *)

\* the cache after a search with coordinates at time 0 that found nothing,
\* and fifty requests {limit: i} at time 300: these return from line 245 and
\* evict nothing
StaleThenFull ==
    <<Entry(generate_cache_key(Param("lat", StrV(<<"1">>)) @@ Param("lng", StrV(<<"2">>))),
            <<>>, 0)>>
    \o [i \in 1..MAX_CACHE_ENTRIES |->
           Entry(generate_cache_key(Param("limit", IntV(i))), <<>>, CACHE_TTL)]

InitTies ==
    /\ search_cache = StaleThenFull
    /\ clock = CACHE_TTL
    /\ calls = 0
    /\ call = NoCall
    /\ ret = NoReturn
    /\ passes = <<>>
    /\ db = NoDocuments

SpecTies == InitTies /\ [][SearchRequest]_vars


----------------------------------------------------------------------------
(* SpecThreads: two calls of search in two threads of one process. The     *)
(* interpreter runs one bytecode at a time, so a dict operation is atomic   *)
(* and the threads interleave between the statements of search; the module  *)
(* takes no lock                                                            *)

Threads == {1, 2}

\* a request of the full pipeline with coordinates, one with text, and one
\* whose entry the warm cache holds
ThreadRequests ==
    {Param("lat", StrV(<<"1">>)) @@ Param("lng", StrV(<<"2">>)),
     Param("q", StrV(BigMuseum)),
     Param("limit", IntV(1))}

\* a thread: where it is in search, its locals, and how it left
Pass(pc, params, client, current_time, results, branch, old_keys) ==
    [pc |-> pc, params |-> params, client |-> client, current_time |-> current_time,
     results |-> results, branch |-> branch, old_keys |-> old_keys]

InitThreads ==
    /\ search_cache \in {<<>>, WarmCache}
    /\ clock = 0
    /\ calls = 0
    /\ call = NoCall
    /\ ret = NoReturn
    /\ passes = [t \in Threads |-> Pass("idle", NoParams, NotCalled, 0, <<>>, "none", <<>>)]
    /\ db = NoDocuments

Step(t, pass) ==
    /\ passes' = [passes EXCEPT ![t] = pass]
    /\ UNCHANGED <<clock, calls, call, ret, db>>

\* lines 137-140: the thread enters search, reads the clock and tests
\* cache_key in _search_cache
Lookup(t) ==
    /\ passes[t].pc = "idle"
    /\ \E params \in ThreadRequests, client \in {Answer(<<GC>>), Answer(<<GA>>)} :
           Step(t, Pass(IF has_key(search_cache, generate_cache_key(params))
                        THEN "read" ELSE "fetch",
                        params, client, clock, <<>>, "none", <<>>))
    /\ UNCHANGED search_cache

\* lines 141-145: _search_cache[cache_key] raises KeyError when the key has
\* gone since line 140; a fresh entry is returned, an expired one is not
ReadEntry(t) ==
    /\ passes[t].pc = "read"
    /\ \E key \in {generate_cache_key(passes[t].params)} :
           Step(t, IF ~has_key(search_cache, key)
                   THEN [passes[t] EXCEPT !.pc = "failed"]
                   ELSE IF cache_hit(search_cache, key, passes[t].current_time)
                   THEN [passes[t] EXCEPT !.pc = "done", !.branch = "hit",
                                          !.results = entry_of(search_cache, key).results]
                   ELSE [passes[t] EXCEPT !.pc = "fetch"])
    /\ UNCHANGED search_cache

\* lines 147-422: the gateways are asked and the answer is filtered and
\* ranked; nothing of this reads the cache
Fetch(t) ==
    /\ passes[t].pc = "fetch"
    /\ \E outcome \in {search_keyed(passes[t].params, <<>>, passes[t].current_time,
                                    passes[t].client, Failure,
                                    generate_cache_key(passes[t].params))} :
           Step(t, [passes[t] EXCEPT !.pc = "store", !.results = outcome.results,
                                     !.branch = outcome.branch])
    /\ UNCHANGED search_cache

\* line 424, or the store of lines 231, 237, 244 and 306, which returns
StoreResults(t) ==
    /\ passes[t].pc = "store"
    /\ search_cache' = store(search_cache, generate_cache_key(passes[t].params),
                             passes[t].results, passes[t].current_time)
    /\ Step(t, [passes[t] EXCEPT !.pc = IF passes[t].branch \in PipelineBranches
                                        THEN "check" ELSE "done"])

\* line 426
CheckCapacity(t) ==
    /\ passes[t].pc = "check"
    /\ Step(t, [passes[t] EXCEPT !.pc = IF Len(search_cache) > MAX_CACHE_ENTRIES
                                        THEN "sort" ELSE "done"])
    /\ UNCHANGED search_cache

\* line 427 and the slice of line 428: the keys to delete are fixed from the
\* entries the dict holds now
SortEntries(t) ==
    /\ passes[t].pc = "sort"
    /\ \E sorted_cache \in {stable_sort(search_cache,
                                        [i \in 1..Len(search_cache) |->
                                            <<search_cache[i].time>>])} :
           Step(t, [passes[t] EXCEPT
                       !.pc = "evict",
                       !.old_keys = [i \in 1..(IF Len(sorted_cache) > MAX_CACHE_ENTRIES
                                               THEN Len(sorted_cache) - MAX_CACHE_ENTRIES
                                               ELSE 0) |-> sorted_cache[i].key]])
    /\ UNCHANGED search_cache

\* lines 428-429, one turn of the loop: del raises KeyError when another
\* thread has deleted the key
DeleteOldKey(t) ==
    /\ passes[t].pc = "evict"
    /\ IF passes[t].old_keys = <<>>
       THEN /\ Step(t, [passes[t] EXCEPT !.pc = "done"])
            /\ UNCHANGED search_cache
       ELSE IF has_key(search_cache, Head(passes[t].old_keys))
       THEN /\ search_cache' = SelectSeq(search_cache,
                                         LAMBDA e : e.key # Head(passes[t].old_keys))
            /\ Step(t, [passes[t] EXCEPT !.old_keys = Tail(@)])
       ELSE /\ Step(t, [passes[t] EXCEPT !.pc = "failed"])
            /\ UNCHANGED search_cache

NextThreads ==
    \/ \E t \in Threads : Lookup(t)
    \/ \E t \in Threads : ReadEntry(t)
    \/ \E t \in Threads : Fetch(t)
    \/ \E t \in Threads : StoreResults(t)
    \/ \E t \in Threads : CheckCapacity(t)
    \/ \E t \in Threads : SortEntries(t)
    \/ \E t \in Threads : DeleteOldKey(t)
    \/ Tick

SpecThreads == InitThreads /\ [][NextThreads]_vars


----------------------------------------------------------------------------
(* SpecTrips: the compilations of the users. save_place_to_user_trip       *)
(* (services/attractions_service.py), add_item and remove_item             *)
(* (controllers/compilations_controller.py) on the documents of the        *)
(* database. An item holds a reference: None, the id of an Attraction, or  *)
(* an id no Attraction has                                                 *)

MaxTripCalls == 3

\* the ObjectIds the database hands out, in order
AttractionIds == <<"x1", "x2", "x3", "x4">>

CompilationIds == <<"c1", "c2", "c3", "c4", "c5", "c6", "c7", "c8">>

Resolves(documents, ref) ==
    ref # None /\ \E i \in 1..Len(documents.attractions) : documents.attractions[i].id = ref[1]

attraction_of(documents, id) ==
    documents.attractions[CHOOSE i \in 1..Len(documents.attractions) :
                              documents.attractions[i].id = id]

\* what an operation did: the exception it raised, '' when it returned, and
\* the documents it left
Left(raised, documents) == [raised |-> raised, documents |-> documents]

\* save_place, lines 520-583: the Attraction of the place_id is fetched or
\* created; the fields taken from the provider's details are not modelled
save_place(documents, place_id) ==
    IF \E i \in 1..Len(documents.attractions) : documents.attractions[i].place_id = place_id
    THEN documents
    ELSE [documents EXCEPT !.attractions =
             Append(@, [id |-> <<AttractionIds[Len(@) + 1]>>, place_id |-> place_id,
                        owner |-> None])]

\* the loop of lines 631-634, and of lines 29-31 of add_item: the first item
\* at which the loop stops, because its reference is the attraction or
\* because reading its reference raises; 0 when the loop runs to its end
first_stop(documents, items, id, broken_raises) ==
    LET stops == {i \in 1..Len(items) :
                     \/ items[i] = Some(id)
                     \/ items[i] # None /\ ~Resolves(documents, items[i]) /\ broken_raises}
    IN  IF stops = {} THEN 0 ELSE CHOOSE i \in stops : \A j \in stops : i <= j

\* save_place_to_user_trip, lines 599-641; user is the id of a user without
\* selected country, compilation_id and compilation_name are optional
save_place_to_user_trip(documents, user, place_id, compilation_id, compilation_name, broken_raises) ==
    LET saved == save_place(documents, place_id)
        a == CHOOSE i \in 1..Len(saved.attractions) : saved.attractions[i].place_id = place_id
        \* lines 604-609
        owned == [saved EXCEPT !.attractions[a].owner = Some(user)]
        attraction == owned.attractions[a]
        \* lines 613-620
        found == {c \in 1..Len(owned.compilations) :
                     compilation_id = Some(owned.compilations[c].id)}
        \* lines 622-628
        default_name == IF compilation_name = None THEN "My Trip (Any)"
                        ELSE compilation_name[1]
        named == {c \in 1..Len(owned.compilations) :
                     /\ owned.compilations[c].owner = Some(user)
                     /\ owned.compilations[c].name = default_name}
        resolved ==
            IF found # {} \/ named # {} THEN owned
            ELSE [owned EXCEPT !.compilations =
                     Append(@, [id |-> CompilationIds[Len(@) + 1], owner |-> Some(user),
                                name |-> default_name, items |-> <<>>])]
        c == IF found # {} THEN CHOOSE x \in found : TRUE
             ELSE IF named # {} THEN CHOOSE x \in named : \A y \in named : x <= y
             ELSE Len(resolved.compilations)
        stop == first_stop(resolved, resolved.compilations[c].items, attraction.id,
                           broken_raises)
    IN  IF found # {} /\ owned.compilations[CHOOSE x \in found : TRUE].owner
                             \notin {None, Some(user)}
        THEN Left("PermissionError", owned)
        ELSE IF stop = 0
        THEN Left("", [resolved EXCEPT !.compilations[c].items = Append(@, Some(attraction.id))])
        ELSE IF resolved.compilations[c].items[stop] = Some(attraction.id)
        THEN Left("", resolved)
        ELSE Left("DoesNotExist", resolved)

\* an add_item that does not look for the attraction among the items
add_item_unchecked(documents, compilation_id, attraction_id, broken_raises) ==
    IF attraction_id = <<>> THEN Left("ValidationError", documents)
    ELSE IF \A c \in 1..Len(documents.compilations) :
                documents.compilations[c].id # compilation_id
         \/ ~Resolves(documents, Some(attraction_id))
    THEN Left("NotFound", documents)
    ELSE LET c == CHOOSE x \in 1..Len(documents.compilations) :
                      documents.compilations[x].id = compilation_id
         IN  Left("", [documents EXCEPT !.compilations[c].items =
                           Append(@, Some(attraction_id))])

\* CompilationsController.add_item, lines 13-37
add_item(documents, compilation_id, attraction_id, broken_raises) ==
    IF attraction_id = <<>> THEN Left("ValidationError", documents)
    ELSE IF \A c \in 1..Len(documents.compilations) :
                documents.compilations[c].id # compilation_id
         \/ ~Resolves(documents, Some(attraction_id))
    THEN Left("NotFound", documents)
    ELSE LET c == CHOOSE x \in 1..Len(documents.compilations) :
                      documents.compilations[x].id = compilation_id
             stop == first_stop(documents, documents.compilations[c].items, attraction_id,
                                broken_raises)
         IN  IF stop = 0
             THEN Left("", [documents EXCEPT !.compilations[c].items =
                                Append(@, Some(attraction_id))])
             ELSE IF documents.compilations[c].items[stop] = Some(attraction_id)
             THEN Left("ValidationError", documents)
             ELSE Left("DoesNotExist", documents)

\* CompilationsController.remove_item, lines 41-110: an item stays when its
\* reference can be read and neither its id nor its place_id is the stripped
\* attraction_id; an item without reference, or whose reference raises when
\* read, is skipped and so removed
remove_item(documents, compilation_id, attraction_id, broken_raises) ==
    IF attraction_id = <<>> THEN Left("ValidationError", documents)
    ELSE IF \A c \in 1..Len(documents.compilations) :
                documents.compilations[c].id # compilation_id
    THEN Left("NotFound", documents)
    ELSE LET c == CHOOSE x \in 1..Len(documents.compilations) :
                      documents.compilations[x].id = compilation_id
             attraction_id_normalized == strip(attraction_id)
             filtered_items ==
                 SelectSeq(documents.compilations[c].items,
                           LAMBDA item :
                               /\ item # None
                               /\ Resolves(documents, item) \/ ~broken_raises
                               /\ item[1] # attraction_id_normalized
                               /\ Resolves(documents, item) =>
                                      attraction_of(documents, item[1]).place_id
                                      # attraction_id_normalized)
         IN  Left("", [documents EXCEPT !.compilations[c].items = filtered_items])

\* a compilation of u1 with an attraction, an item without reference and an
\* item whose attraction is gone, and an empty compilation of u2
InitTrips ==
    /\ search_cache = <<>>
    /\ clock = 0
    /\ calls = 0
    /\ call = NoCall
    /\ ret = NoReturn
    /\ passes = <<>>
    /\ db = [attractions |-> <<[id |-> <<"x1">>, place_id |-> <<"a">>, owner |-> Some("u1")]>>,
             compilations |->
                 <<[id |-> "c1", owner |-> Some("u1"), name |-> "trip",
                    items |-> <<Some(<<"x1">>), None, Some(<<"gone">>)>>],
                   [id |-> "c2", owner |-> Some("u2"), name |-> "My Trip (Any)",
                    items |-> <<>>]>>]

\* one operation on the documents; a save of the compilation is the change
\* of its document
Operate(op, arguments, left) ==
    /\ calls' = calls + 1
    /\ call' = [op |-> op, arguments |-> arguments, before |-> db]
    /\ ret' = [raised |-> left.raised]
    /\ db' = left.documents
    /\ UNCHANGED <<search_cache, clock, passes>>

SavePlaceToUserTrip ==
    /\ calls < MaxTripCalls
    /\ \E user \in {"u1", "u2"}, place_id \in {<<"a">>, <<"b">>}, broken_raises \in BOOLEAN,
          compilation_id \in {None, Some("c1"), Some("c2"), Some("c9")},
          compilation_name \in {None, Some("trip")} :
           Operate("save_place_to_user_trip",
                   <<user, place_id, compilation_id, compilation_name>>,
                   save_place_to_user_trip(db, user, place_id, compilation_id,
                                           compilation_name, broken_raises))

AddItem ==
    /\ calls < MaxTripCalls
    /\ \E compilation_id \in {"c1", "c2", "c9"}, broken_raises \in BOOLEAN,
          attraction_id \in {<<>>, <<"x1">>, <<"x2">>, <<"gone">>} :
           Operate("add_item", <<compilation_id, attraction_id>>,
                   add_item(db, compilation_id, attraction_id, broken_raises))

RemoveItem ==
    /\ calls < MaxTripCalls
    /\ \E compilation_id \in {"c1", "c2", "c9"}, broken_raises \in BOOLEAN,
          attraction_id \in {<<>>, <<"x1">>, <<WS, "a", WS>>, <<"b">>, <<"x2">>} :
           Operate("remove_item", <<compilation_id, attraction_id>>,
                   remove_item(db, compilation_id, attraction_id, broken_raises))

NextTrips == SavePlaceToUserTrip \/ AddItem \/ RemoveItem

SpecTrips == InitTrips /\ [][NextTrips]_vars


----------------------------------------------------------------------------
(* SpecPipeline: one call on the empty cache, over every request shape and *)
(* every answer of the two sources                                         *)

TextOptions == {Param("q", StrV(BigMuseum)), Param("q", StrV(<<WS, "Japan", WS>>))}

CoordinateOptions == {Param("lat", StrV(<<"1">>)) @@ Param("lng", IntV(2))}

CountryOptions == {Param("country", StrV(<<"France">>))}

CategoryOptions == {Param("category", StrV(<<"Museum", ",", WS, "park">>))}

RatingOptions == {Param("min_rating", StrV(<<"4">>)), Param("minRating", IntV(4))}

PriceOptions == {Param("maxPrice", StrV(<<"2">>))}

ProfileOptions == {Param("profile", StrV(LOCAL_PROFILE)), Param("profile", StrV(PRO))}

PipelineRequests ==
    Combine(<<TextOptions, CountryOptions, CategoryOptions, RatingOptions, PriceOptions,
              ProfileOptions>>)
    \cup
    {coordinates @@ rest :
        coordinates \in CoordinateOptions,
        rest \in Combine(<<{Param("q", StrV(BigMuseum))}, CategoryOptions,
                           {Param("min_rating", StrV(<<"4">>))}, ProfileOptions>>)}

InitPipeline ==
    /\ search_cache = <<>>
    /\ clock = 0
    /\ calls = 0
    /\ call = NoCall
    /\ ret = NoReturn
    /\ passes = <<>>
    /\ db = NoDocuments

SearchOnce ==
    /\ calls = 0
    /\ \E params \in PipelineRequests, client \in ProviderOutcomes :
           \E repo \in AnswersFor(params, RepositoryOutcomes) :
               Search(params, client, repo)

SpecPipeline == InitPipeline /\ [][SearchOnce]_vars


----------------------------------------------------------------------------
(* SpecFilters: one call with coordinates on the empty cache, over the     *)
(* filters a request can carry and provider answers of every price level   *)

\* records of the provider with the price levels 0, 1, 2, none and 3
F0 == Place(Some("f0"), "free museum", <<Museum>>, Some(3), Some(5), Some(0), <<>>)

F1 == Place(Some("f1"), "city park", <<<<"Park">>>>, Some(5), Some(1), Some(1), <<>>)

F2 == Place(Some("f2"), "gallery", <<<<"art", "_", "gallery">>>>, Some(4), Some(8), Some(2), <<>>)

FN == Place(Some("fn"), "unpriced", <<>>, Some(4), Some(50), None, <<>>)

F3 == Place(Some("f3"), "fun fair", <<<<"amusement", "_", "park">>, Restaurant>>, Some(2), Some(9), Some(3), <<>>)

\* a record whose only tag is a part of the vocabulary word art_gallery
FArt == Place(Some("fa"), "studio", <<<<"art">>>>, Some(1), Some(2), None, <<>>)

PriceLadder == <<F0, F1, F2, FN, F3>>

FilterPool == {F0, F1, F2, FN, F3}

\* the client answers with the whole ladder or with any short list
FilterProviderOutcomes ==
    {Answer(PriceLadder), Answer(<<FN, FArt>>)}
    \cup {Answer(r) : r \in SeqsUpTo(FilterPool, MaxProviderResults)}

\* category lists whose tokens equal a tag, contain one or are contained in
\* one; a ceiling as a str and as an int, 0 included, and the sentinel 200
FilterRequests ==
    {coordinates @@ rest :
        coordinates \in CoordinateOptions,
        rest \in Combine(<<{Param("category", StrV(<<"Museum">>)),
                            Param("category", StrV(<<"amusement", "_", "park">>)),
                            Param("category", StrV(<<"ART", ",", WS, "park">>))},
                           {Param("maxPrice", StrV(<<"1">>)), Param("maxPrice", StrV(<<"0">>)),
                            Param("price_level", IntV(1)), Param("price_level", IntV(0)),
                            Param("maxPrice", StrV(<<"200">>))},
                           {Param("min_rating", StrV(<<"4">>))},
                           ProfileOptions>>)}

SearchFiltered ==
    /\ calls = 0
    /\ \E params \in FilterRequests, client \in FilterProviderOutcomes :
           \E repo \in {Failure, Answer(<<LE>>)} :
               Search(params, client, repo)

SpecFilters == InitPipeline /\ [][SearchFiltered]_vars


----------------------------------------------------------------------------
(* SpecRequests: one call on the empty cache, over the shapes of a request: *)
(* text, coordinates, country, city, filters and numeric fields, well      *)
(* formed or not                                                           *)

Japan == <<"Japan">>

NotANumber == <<"abc">>

\* texts blank, bare and of two words; one coordinate alone, a latitude that
\* is no number, a pair; a radius and a limit that are no numbers
Requests ==
    Combine(<<{Param("q", StrV(<<WS>>)), Param("q", StrV(<<WS, "Japan", WS>>)),
               Param("q", StrV(BigMuseum))},
              {Param("lat", StrV(<<"1">>)),
               Param("lat", StrV(NotANumber)) @@ Param("lng", StrV(<<"2">>)),
               Param("lat", StrV(<<"1">>)) @@ Param("lng", IntV(2))},
              CountryOptions,
              {Param("city", StrV(<<"Paris">>))},
              {Param("category", StrV(<<"Museum">>))},
              {Param("min_rating", StrV(<<"4">>))},
              {Param("radius_m", StrV(NotANumber)), Param("radius_m", StrV(<<"2000">>))},
              {Param("limit", StrV(NotANumber)), Param("limit", StrV(<<"5">>))},
              {Param("profile", StrV(LOCAL_PROFILE))}>>)

SearchShaped ==
    /\ calls = 0
    /\ \E params \in Requests, client \in {Failure, Answer(<<GC, GA>>)} :
           \E repo \in AnswersFor(params, {Failure, Answer(<<LA>>)}) :
               Search(params, client, repo)

SpecRequests == InitPipeline /\ [][SearchShaped]_vars


----------------------------------------------------------------------------
(* the claims *)

Missed == calls > 0 /\ ~ret.hit /\ ~ret.raised

\* C1: whenever a search call has returned, the cache holds at most 50
\* entries, whichever branch stored the result
C1_CacheAtMostFifty == Len(search_cache) <= MAX_CACHE_ENTRIES

\* the minimum rating a request carries, 0 when it carries none
RequestedMinRating(params) ==
    IF has_min_rating(min_rating_of(params)) THEN to_number(min_rating_of(params)).n ELSE 0

\* C2: a call that misses the cache and carries a minimum rating t > 0
\* returns, and caches, only attractions rated t or more, on every branch
C2_MinRatingOnEveryBranch ==
    (Missed /\ RequestedMinRating(call.params) > 0) =>
        /\ \A i \in 1..Len(ret.results) :
               ret.results[i].rating >= RequestedMinRating(call.params)
        /\ has_key(search_cache, generate_cache_key(call.params))
        /\ entry_of(search_cache, generate_cache_key(call.params)).results = ret.results


Surviving(outcome) == IF outcome.kind = "ok" THEN outcome.results ELSE <<>>

\* C3: in a search with coordinates, a failure of the provider, of the local
\* store or of both does not leave search: both sources are asked, the one
\* that failed contributes nothing, and the returned list is the merge,
\* filter and ranking of what the other one answered
C3_SourceFailureAbsorbed ==
    (ret.branch = "coordinates" /\ (call.client = Failure \/ call.repo = Failure)) =>
        /\ ~ret.raised
        /\ Len(ret.provider_calls) = 1
        /\ Len(ret.repository_calls) = 1
        /\ ret.google_results = Surviving(call.client)
        /\ ret.db_results = Surviving(call.repo)
        /\ \A i \in 1..Len(ret.results) :
               \/ \E j \in 1..Len(Surviving(call.client)) :
                      ret.results[i].raw_data = Surviving(call.client)[j]
               \/ \E j \in 1..Len(Surviving(call.repo)) :
                      ret.results[i].raw_data = db_dict(Surviving(call.repo)[j])
        /\ ret.results =
               pipeline(call.params,
                        map_all(merge(Surviving(call.client), Surviving(call.repo)),
                                str_or_empty(get(call.params, "country")))).results

\* the provider failed and the documents of the local store were returned
C3_Witness ==
    /\ ret.branch = "coordinates"
    /\ call.client = Failure
    /\ call.repo.kind = "ok"
    /\ ret.results # <<>>

\* C4: an entry stored at time T serves a search of the same fingerprint made
\* less than 300 s after T; a search made more than 300 s after T misses: it
\* asks the gateways as a first search does and replaces the entry; neither
\* an absent nor an expired entry makes search raise
C4_TimeToLive ==
    [][calls' = calls + 1 =>
          \A key \in {generate_cache_key(call'.params)} :
              /\ (has_key(search_cache, key)
                  /\ clock - entry_of(search_cache, key).time < CACHE_TTL) =>
                     /\ ret'.hit
                     /\ ret'.results = entry_of(search_cache, key).results
              /\ (has_key(search_cache, key)
                  /\ clock - entry_of(search_cache, key).time > CACHE_TTL) =>
                     /\ ~ret'.hit
                     /\ ~ret'.raised
                     /\ ret'.branch = "empty" \/ ret'.provider_calls # <<>>
                     /\ has_key(search_cache', key)
                     /\ entry_of(search_cache', key) = Entry(key, ret'.results, clock)
              /\ ~has_key(search_cache, key) => ~ret'.hit /\ ~ret'.raised]_vars

\* a search found its entry expired and asked the provider again
C4_Witness ==
    /\ ret.cache_time # None
    /\ call.time - ret.cache_time[1] > CACHE_TTL
    /\ ~ret.hit
    /\ ret.provider_calls # <<>>
    /\ entry_of(search_cache, generate_cache_key(call.params)).time = call.time

\* C5: a hit returns the stored sequence as it is, asks neither the provider
\* nor the local store, and leaves every entry of the cache unchanged
C5_HitReturnsStored ==
    [][(calls' = calls + 1 /\ ret'.hit) =>
          /\ \A key \in {generate_cache_key(call'.params)} :
                 /\ has_key(search_cache, key)
                 /\ ret'.results = entry_of(search_cache, key).results
          /\ ret'.provider_calls = <<>>
          /\ ret'.repository_calls = <<>>
          /\ search_cache' = search_cache]_vars

\* a hit on a non-empty list, after the clock has moved
C5_Witness ==
    /\ ret.hit
    /\ ret.results # <<>>
    /\ ret.cache_time # None
    /\ call.time > ret.cache_time[1]

\* the request a cache key was computed from
params_of(key) ==
    [k \in {key[i][1] : i \in 1..Len(key)} |->
        LET i == CHOOSE j \in 1..Len(key) : key[j][1] = k
        IN  [kind |-> key[i][2][1], s |-> key[i][2][2], n |-> key[i][2][3]]]

\* C6: two requests with equal normalized parameters have the same
\* fingerprint, so the second one inside the TTL is a hit
C6_FingerprintOfNormalized ==
    [][calls' = calls + 1 =>
          \A i \in 1..Len(search_cache) :
              (/\ normalized(params_of(search_cache[i].key)) = normalized(call'.params)
               /\ clock - search_cache[i].time < CACHE_TTL) => ret'.hit]_vars

OccurrencesOf(seq, place_id) == {i \in 1..Len(seq) : seq[i].place_id = place_id}

\* C7: when the provider's answer (a set: it holds X once) and the local
\* store's answer share a place_id X, the merged sequence holds exactly one
\* record with place_id X, the provider's; the local record is dropped
C7_ProviderCopyWins ==
    (ret.branch = "coordinates" /\ ~ret.raised) =>
        \A a \in 1..Len(ret.google_results), b \in 1..Len(ret.db_results) :
            (/\ ret.google_results[a].place_id # None
             /\ ret.db_results[b].place_id = ret.google_results[a].place_id
             /\ Cardinality(OccurrencesOf(ret.google_results,
                                          ret.google_results[a].place_id)) = 1) =>
                /\ Cardinality(OccurrencesOf(ret.merged, ret.google_results[a].place_id)) = 1
                /\ \A i \in OccurrencesOf(ret.merged, ret.google_results[a].place_id) :
                       ret.merged[i] = ret.google_results[a]
                /\ \A i \in 1..Len(ret.merged) : ret.merged[i] # db_dict(ret.db_results[b])

\* both sources answered with the place "a"
C7_Witness ==
    /\ ret.branch = "coordinates"
    /\ \E a \in 1..Len(ret.google_results), b \in 1..Len(ret.db_results) :
           /\ ret.google_results[a].place_id # None
           /\ ret.db_results[b].place_id = ret.google_results[a].place_id
           /\ ret.db_results[b].name # ret.google_results[a].name
           /\ Cardinality(OccurrencesOf(ret.google_results,
                                        ret.google_results[a].place_id)) = 1

\* C8: no two attractions of a list returned by the coordinates branch have
\* the same place_id, whatever the provider and the local store answered
C8_DistinctPlaceIds ==
    (ret.branch = "coordinates" /\ ~ret.raised) =>
        \A i, j \in 1..Len(ret.results) :
            (i # j /\ ret.results[i].place_id # None) =>
                ret.results[i].place_id # ret.results[j].place_id

ProviderHas(place_id) ==
    \E j \in 1..Len(ret.google_results) : ret.google_results[j].place_id = place_id

\* C9 as stated: the merged sequence is the provider's answer in its order,
\* then every local document whose place_id the provider does not have, in
\* the local store's order
C9_EveryLocalOnlyRecord ==
    (ret.branch = "coordinates" /\ ~ret.raised) =>
        LET local_only == SelectSeq(ret.db_results, LAMBDA d : ~ProviderHas(d.place_id))
        IN  /\ Len(ret.merged) = Len(ret.google_results) + Len(local_only)
            /\ SubSeq(ret.merged, 1, Len(ret.google_results)) = ret.google_results
            /\ \A k \in 1..Len(local_only) :
                   ret.merged[Len(ret.google_results) + k] = db_dict(local_only[k])

\* C9 as amended: ... then those of the first ten local documents whose
\* place_id the provider does not have, in the local store's order
C9_FirstTenLocalOnlyRecords ==
    (ret.branch = "coordinates" /\ ~ret.raised) =>
        LET local_only == SelectSeq(Take(ret.db_results, LOCAL_MERGE_LIMIT),
                                    LAMBDA d : ~ProviderHas(d.place_id))
        IN  /\ Len(ret.merged) = Len(ret.google_results) + Len(local_only)
            /\ SubSeq(ret.merged, 1, Len(ret.google_results)) = ret.google_results
            /\ \A k \in 1..Len(local_only) :
                   ret.merged[Len(ret.google_results) + k] = db_dict(local_only[k])

\* the provider answered, the local store answered more than ten documents,
\* and one behind the tenth is unknown to the provider
C9_Witness ==
    /\ ret.branch = "coordinates"
    /\ ret.google_results # <<>>
    /\ Len(ret.merged) > Len(ret.google_results)
    /\ \E k \in (LOCAL_MERGE_LIMIT + 1)..Len(ret.db_results) :
           ~ProviderHas(ret.db_results[k].place_id)
    /\ \E k \in 1..Len(ret.db_results) : ProviderHas(ret.db_results[k].place_id)

Vocabulary(profile) ==
    CASE profile = TOURIST -> tourist_types
      [] profile = LOCAL_PROFILE -> local_types
      [] profile = PRO -> pro_types
      [] OTHER -> {}

\* the composite key of an attraction in the latest call, greatest first
RankKey(place) ==
    IF ret.has_filters
    THEN <<place.rating, place.user_ratings_total>>
    ELSE <<type_affinity(place, Vocabulary(str_or_empty(
               get_default(call.params, "profile", StrV(TOURIST))))),
           place.rating, place.user_ratings_total>>

Count(seq, x) == Cardinality({i \in 1..Len(seq) : seq[i] = x})

\* the elements of seq whose key is key, in their order
WithKey(seq, keys, key) ==
    LET at == SelectSeq([i \in 1..Len(seq) |-> i], LAMBDA i : keys[i] = key)
    IN  List([p \in 1..Len(at) |-> seq[at[p]]])

\* C10: the ranking stage returns a permutation of its input, in
\* non-increasing order of the composite key, attractions with equal keys in
\* the order they had; for each of the three profiles, filters active or not
C10_StableRanking ==
    (ret.branch \in PipelineBranches /\ ~ret.raised) =>
        \A in_keys \in {List([i \in 1..Len(ret.filtered) |-> RankKey(ret.filtered[i])])},
           out_keys \in {List([i \in 1..Len(ret.results) |-> RankKey(ret.results[i])])} :
            /\ Len(ret.results) = Len(ret.filtered)
            /\ \A i \in 1..Len(ret.filtered) :
                   Count(ret.results, ret.filtered[i]) = Count(ret.filtered, ret.filtered[i])
            /\ \A i, j \in 1..Len(ret.results) :
                   i < j => ~lex_less(out_keys[i], out_keys[j])
            /\ \A i \in 1..Len(ret.filtered) :
                   WithKey(ret.results, out_keys, in_keys[i])
                   = WithKey(ret.filtered, in_keys, in_keys[i])

\* the ranking moved an attraction and kept two of equal key in their order
C10_Witness ==
    /\ ret.branch \in PipelineBranches
    /\ ret.results # ret.filtered
    /\ \E i, j \in 1..Len(ret.results) :
           /\ i < j
           /\ ret.results[i] # ret.results[j]
           /\ RankKey(ret.results[i]) = RankKey(ret.results[j])


\* the ceiling a request carries under price_level or maxPrice, 0 included
RequestedCeiling(params) ==
    LET given == IF "price_level" \in DOMAIN params
                 THEN params["price_level"] ELSE get(params, "maxPrice")
    IN  IF to_number(given).ok THEN Some(to_number(given).n) ELSE None

\* a category list, a minimum rating above 0 or a ceiling below the sentinel
FiltersRequested(params) ==
    \/ requested_types_of(get(params, "category")) # <<>>
    \/ RequestedMinRating(params) > 0
    \/ RequestedCeiling(params) # None /\ RequestedCeiling(params)[1] < PRICE_LEVEL_MAX

\* C11: a call that misses the cache and carries a category list, a minimum
\* rating above 0 or a price ceiling below 200 (a ceiling of 0 included)
\* returns its list by descending rating, then descending
\* user_ratings_total, whatever the profile
C11_PopularityOrderWhenFiltered ==
    (Missed /\ FiltersRequested(call.params)) =>
        \A i, j \in 1..Len(ret.results) :
            i < j => ~lex_less(<<ret.results[i].rating, ret.results[i].user_ratings_total>>,
                               <<ret.results[j].rating, ret.results[j].user_ratings_total>>)


\* C12: a call whose provider or local-store request failed leaves no cache
\* entry of its own for later identical calls to be served from
C12_NoEntryAfterFailedFetch ==
    (Missed /\ (call.client = Failure \/ call.repo = Failure)) =>
        \A key \in {generate_cache_key(call.params)} :
            ~(has_key(search_cache, key) /\ entry_of(search_cache, key).time = call.time)


\* both coordinates are given and are numbers
UsablePair(params) ==
    /\ {"lat", "lng"} \subseteq DOMAIN params
    /\ to_number(params["lat"]).ok
    /\ to_number(params["lng"]).ok

TextOf(params) == IF "q" \in DOMAIN params THEN params["q"].s ELSE <<>>

IsBlank(text) == \A i \in 1..Len(text) : text[i] = WS

NothingToSearchFor(params) ==
    /\ IsBlank(TextOf(params))
    /\ ~UsablePair(params)
    /\ "country" \notin DOMAIN params

\* C13: a call with an empty or blank text, no usable pair of coordinates and
\* no country returns the empty list: it does not raise and asks neither the
\* provider nor the local store, whatever its filters and profile
C13_NothingToSearchFor ==
    (calls > 0 /\ NothingToSearchFor(call.params)) =>
        /\ ~ret.raised
        /\ ret.results = <<>>
        /\ ret.provider_calls = <<>>
        /\ ret.repository_calls = <<>>

\* a blank text, a latitude that is no number and a category filter
C13_Witness ==
    /\ calls > 0
    /\ NothingToSearchFor(call.params)
    /\ get(call.params, "q") = StrV(<<WS>>)
    /\ get(call.params, "lat") = StrV(NotANumber)
    /\ "category" \in DOMAIN call.params
    /\ ret.results = <<>>


\* a numeric field that is given and is no number
Malformed(params) ==
    \E k \in {"lat", "lng", "radius_m", "limit"} :
        k \in DOMAIN params /\ ~to_number(params[k]).ok

\* C14: search raises exactly for malformed input: a call whose lat, lng,
\* radius_m or limit is no number is rejected, and a call whose numeric
\* fields are well formed never raises, whatever the sources do
C14_RaisesExactlyOnMalformedInput ==
    calls > 0 => (ret.raised <=> Malformed(call.params))


\* C15: the provider is never sent a request that has no location and an
\* empty or missing query; a call with no text and no coordinates that asks
\* the provider asks it about the request's country
C15_NoEmptyProviderQuery ==
    /\ \A i \in 1..Len(ret.provider_calls) :
           ret.provider_calls[i].location = None =>
               /\ ret.provider_calls[i].query # None
               /\ ~IsBlank(ret.provider_calls[i].query[1])
    /\ (calls > 0 /\ IsBlank(TextOf(call.params)) /\ ~UsablePair(call.params)) =>
           \A i \in 1..Len(ret.provider_calls) :
               /\ "country" \in DOMAIN call.params
               /\ contains(ret.provider_calls[i].query[1], call.params["country"].s)

\* a blank text without coordinates was turned into a query about the country
C15_Witness ==
    /\ calls > 0
    /\ get(call.params, "q") = StrV(<<WS>>)
    /\ ~UsablePair(call.params)
    /\ Len(ret.provider_calls) = 1
    /\ ret.provider_calls[1].location = None
    /\ ret.provider_calls[1].query # None

\* the text is one token and nothing else narrows the request
BareToken(params) ==
    /\ ~IsBlank(TextOf(params))
    /\ ~contains(strip(TextOf(params)), <<WS>>)
    /\ ~UsablePair(params)
    /\ "city" \notin DOMAIN params
    /\ "country" \notin DOMAIN params
    /\ ~FiltersRequested(params)

\* the limit of a request, 50 by default
LimitOf(params) ==
    IF "limit" \in DOMAIN params THEN to_number(params["limit"]).n ELSE DEFAULT_LIMIT

TagMatch(tokens, tags) ==
    \E r \in 1..Len(tokens), t \in 1..Len(tags) :
        \/ lower(tokens[r]) = lower(tags[t])
        \/ contains(lower(tags[t]), lower(tokens[r]))
        \/ contains(lower(tokens[r]), lower(tags[t]))

CategoryTokens(params) == requested_types_of(get(params, "category"))

\* C17: with a category list requested, the category filter keeps a result
\* exactly when some requested token and some type tag of it match; the
\* kept results keep their order and a result without type tags is dropped
C17_CategoryFilter ==
    (ret.branch = "coordinates" /\ ~ret.raised /\ CategoryTokens(call.params) # <<>>) =>
        /\ \A i \in 1..Len(ret.filtered) :
               /\ TagMatch(CategoryTokens(call.params), ret.filtered[i].types)
               /\ ret.filtered[i].types # <<>>
        /\ DOMAIN call.params \subseteq {"lat", "lng", "category", "profile"} =>
               ret.filtered =
                   SelectSeq(ret.mapped,
                             LAMBDA p : TagMatch(CategoryTokens(call.params), p.types))

\* the token amusement_park kept a place tagged Park and a place tagged
\* amusement_park, and a place without tags was dropped
C17_Witness ==
    /\ ret.branch = "coordinates"
    /\ get(call.params, "category") = StrV(<<"amusement", "_", "park">>)
    /\ \E i \in 1..Len(ret.filtered) : ret.filtered[i].types = <<<<"Park">>>>
    /\ \E i \in 1..Len(ret.filtered) : ret.filtered[i].types[1] = <<"amusement", "_", "park">>
    /\ \E i \in 1..Len(ret.mapped) : ret.mapped[i].types = <<>>
    /\ Len(ret.filtered) < Len(ret.mapped)

\* C18: with a price ceiling c requested, the price filter keeps exactly the
\* results whose price_level is absent or at most c, in their order
C18_PriceCeilingFilter ==
    (/\ ret.branch = "coordinates"
     /\ ~ret.raised
     /\ RequestedCeiling(call.params) # None
     /\ RequestedCeiling(call.params)[1] < PRICE_LEVEL_MAX) =>
        /\ \A i \in 1..Len(ret.results) :
               \/ ret.results[i].price_level = None
               \/ ret.results[i].price_level[1] <= RequestedCeiling(call.params)[1]
        /\ DOMAIN call.params \subseteq {"lat", "lng", "price_level", "maxPrice", "profile"} =>
               ret.filtered =
                   SelectSeq(ret.mapped,
                             LAMBDA p : \/ p.price_level = None
                                        \/ p.price_level[1] <= RequestedCeiling(call.params)[1])


\* the positions of the address components carrying one of the tags
Tagged(comps, tags) ==
    {i \in 1..Len(comps) : \E t \in 1..Len(comps[i].types) : comps[i].types[t] \in tags}

FirstTagged(comps, tags) ==
    comps[CHOOSE i \in Tagged(comps, tags) : \A j \in Tagged(comps, tags) : i <= j].long_name

\* C19: a mapped place takes its country from the first address component
\* tagged country and its city from the first component tagged locality or
\* postal_town when there is one; the country hint of the call is used only
\* for a place without a country component
C19_AddressComponentsFirst ==
    (calls > 0 /\ ~ret.raised) =>
        \A i \in 1..Len(ret.results) : \A comps \in {ret.results[i].raw_data.address_components} :
            /\ Tagged(comps, {"country"}) # {} =>
                   ret.results[i].country = FirstTagged(comps, {"country"})
            /\ Tagged(comps, {"locality", "postal_town"}) # {} =>
                   ret.results[i].city = FirstTagged(comps, {"locality", "postal_town"})


Entries(cache) == {cache[i] : i \in 1..Len(cache)}

\* the call of this step stored a fingerprint the cache did not hold, into a
\* cache that was full
StoredIntoFullCache ==
    /\ calls' = calls + 1
    /\ Len(search_cache) >= MAX_CACHE_ENTRIES
    /\ \A key \in {generate_cache_key(call'.params)} :
           /\ ~has_key(search_cache, key)
           /\ has_key(search_cache', key)

\* C20: a store that takes the cache over its capacity leaves exactly 50
\* entries, and no entry it removed was stored later than an entry it kept;
\* so after any number of stores of distinct fingerprints at increasing times
\* the cache holds the 50 most recently stored
C20_EvictionKeepsNewest ==
    [][StoredIntoFullCache =>
           /\ Len(search_cache') = MAX_CACHE_ENTRIES
           /\ Entries(search_cache') \subseteq
                  Entries(search_cache) \cup
                      {entry_of(search_cache', generate_cache_key(call'.params))}
           /\ \A removed \in Entries(search_cache) \ Entries(search_cache') :
                  \A kept \in Entries(search_cache') : removed.time <= kept.time]_vars


\* the number of type tags that contain a word of the vocabulary or are
\* contained in one
TwoWayAffinity(place, vocabulary) ==
    Cardinality({i \in 1..Len(place.types) :
                    \E tt \in vocabulary : \/ contains(lower(place.types[i]), tt)
                                           \/ contains(tt, lower(place.types[i]))})

ProfileOf(params) == str_or_empty(get_default(params, "profile", StrV(TOURIST)))

\* C22: without filters the results are ranked by the number of type tags
\* that match the profile vocabulary, a tag matching a word when either
\* string contains the other, then by rating and number of reviews
C22_TwoWayTypeAffinity ==
    (ret.branch = "coordinates" /\ ~ret.raised /\ ~FiltersRequested(call.params)) =>
        \A keys \in {List([i \in 1..Len(ret.results) |->
                              <<TwoWayAffinity(ret.results[i],
                                               Vocabulary(ProfileOf(call.params))),
                                ret.results[i].rating,
                                ret.results[i].user_ratings_total>>])} :
            \A i, j \in 1..Len(ret.results) : i < j => ~lex_less(keys[i], keys[j])


\* C23: in the coordinates branch only the first ten documents of the local
\* store can be merged: a document at position 11 or later is in neither the
\* merged nor the returned list, also when the provider has one of the first
\* ten and fewer than ten of them are appended
C23_OnlyFirstTenLocalRecords ==
    (ret.branch = "coordinates" /\ ~ret.raised) =>
        /\ Len(ret.merged) - Len(ret.google_results) <= LOCAL_MERGE_LIMIT
        /\ \A k \in (LOCAL_MERGE_LIMIT + 1)..Len(ret.db_results) :
               \A late \in {db_dict(ret.db_results[k])} :
                   /\ \A i \in 1..Len(ret.merged) : ret.merged[i] # late
                   /\ \A i \in 1..Len(ret.results) : ret.results[i].raw_data # late

\* the provider had one of the first ten documents, so that fewer than ten
\* were appended, and the eleventh, which the provider did not have, was
\* left out
C23_Witness ==
    /\ ret.branch = "coordinates"
    /\ Len(ret.db_results) > LOCAL_MERGE_LIMIT
    /\ \E k \in 1..LOCAL_MERGE_LIMIT : ProviderHas(ret.db_results[k].place_id)
    /\ ~ProviderHas(ret.db_results[LOCAL_MERGE_LIMIT + 1].place_id)
    /\ Len(ret.merged) - Len(ret.google_results) \in 1..(LOCAL_MERGE_LIMIT - 1)
    /\ ret.results # <<>>


In(place) == <<WS, "in", WS>> \o place

\* C24: a search with text, without coordinates and not redirected to the
\* country path hands the provider gateway one text query, which is the
\* stripped text of the caller, followed by a profile suffix only when no
\* filter was requested, followed or not by the city or the country; the
\* client then receives what the gateway makes of that query
C24_CallerTextKept ==
    (ret.branch = "text" /\ ~ret.raised /\ ~IsBlank(TextOf(call.params))) =>
        \E flavour \in IF FiltersRequested(call.params) THEN {<<>>}
                       ELSE {<<>>, <<WS, "tourist", WS, "attractions">>,
                             <<WS, "local", WS, "spots">>, <<WS, "business">>},
           place \in {<<>>} \cup {In(call.params[k].s) : k \in DOMAIN call.params \cap {"city", "country"}} :
            ret.provider_calls
            = search_places(call.client,
                            Some(strip(TextOf(call.params)) \o flavour \o place),
                            None, None, place_type_of(call.params)).calls

\* C26: a search leaves every entry that has not expired as it is, results
\* and time of storing, or, when its store took the cache over the capacity,
\* evicts it; no search overwrites or refreshes an unexpired entry
C26_UnexpiredEntryReadOnly ==
    [][calls' = calls + 1 =>
          \A after \in {Entries(search_cache')} :
              \A i \in 1..Len(search_cache) :
                  clock - search_cache[i].time < CACHE_TTL =>
                      \/ search_cache[i] \in after
                      \/ /\ ~has_key(search_cache', search_cache[i].key)
                         /\ Len(search_cache) >= MAX_CACHE_ENTRIES
                         /\ ret'.branch \in PipelineBranches]_vars

\* the second search, of the same fingerprint, came before the entry of the
\* first expired and was served from it; the entry still has the time of the
\* first
C26_Witness ==
    /\ calls = 2
    /\ ret.hit
    /\ ret.results # <<>>
    /\ call.time > 0
    /\ \A key \in {generate_cache_key(call.params)} :
           /\ entry_of(search_cache, key).time = 0
           /\ entry_of(search_cache, key).results = ret.results


\* C27: right after a search that missed the cache has returned, the cache
\* holds the entry of its fingerprint with the returned list and the time of
\* the call, also when the store overwrote an expired entry of the same
\* fingerprint: the eviction never removes the entry just written
C27_StoredEntrySurvives ==
    Missed =>
        \A key \in {generate_cache_key(call.params)} :
            /\ has_key(search_cache, key)
            /\ entry_of(search_cache, key) = Entry(key, ret.results, call.time)


Finished(t) == passes[t].pc \in {"done", "failed"}

\* C21: with calls of search running in several threads, no call fails
\* because another one changed the cache between its reading of the cache
\* and its use of what it read, and when all calls have finished the cache
\* holds at most 50 entries
C21_CacheOperationsExclusive ==
    /\ \A t \in Threads : passes[t].pc # "failed"
    /\ (\A t \in Threads : Finished(t)) => Len(search_cache) <= MAX_CACHE_ENTRIES


EntriesOf(key) == {i \in 1..Len(search_cache) : search_cache[i].key = key}

\* both threads searched the same fingerprint, both missed and asked the
\* gateways, and both have finished
BothFetched ==
    /\ \A t \in Threads : Finished(t) /\ passes[t].branch \notin {"none", "hit"}
    /\ passes[1].params = passes[2].params

compilation_of(documents, id) ==
    documents.compilations[CHOOSE c \in 1..Len(documents.compilations) :
                               documents.compilations[c].id = id]

Holds(compilation, id) == \E i \in 1..Len(compilation.items) : compilation.items[i] = Some(id)

NoDuplicateItems(documents) ==
    \A c \in 1..Len(documents.compilations) :
        \A i, j \in 1..Len(documents.compilations[c].items) :
            (i # j /\ documents.compilations[c].items[i] # None) =>
                documents.compilations[c].items[i] # documents.compilations[c].items[j]

C29_RefusedSaveChangesNothing ==
    (/\ calls > 0
     /\ call.op = "save_place_to_user_trip"
     /\ \E c \in 1..Len(call.before.compilations) :
            /\ call.arguments[3] = Some(call.before.compilations[c].id)
            /\ call.before.compilations[c].owner \notin {None, Some(call.arguments[1])}) =>
        /\ ret.raised = "PermissionError"
        /\ db = call.before

\* C30: remove_item removes from the compilation the items whose attraction
\* has the given id or place_id and no other: an item without reference or
\* with a reference to no attraction stays, the order is kept, and no other
\* document changes
C30_RemoveOnlyMatchingItems ==
    (calls > 0 /\ call.op = "remove_item" /\ ret.raised = "") =>
        \A given \in {strip(call.arguments[2])} :
            /\ db.attractions = call.before.attractions
            /\ \A c \in 1..Len(db.compilations) :
                   db.compilations[c] =
                       IF db.compilations[c].id # call.arguments[1]
                       THEN call.before.compilations[c]
                       ELSE [call.before.compilations[c] EXCEPT !.items =
                                SelectSeq(@, LAMBDA item :
                                    ~(/\ item # None
                                      /\ \/ item[1] = given
                                         \/ /\ Resolves(call.before, item)
                                            /\ attraction_of(call.before, item[1]).place_id
                                               = given))]


====
